---- MODULE Spec2Model ----
(***************************************************************************)
(* Model of main.py: a Flask application that proxies GET /api/search to   *)
(* the Pexels search API.                                                  *)
(*                                                                         *)
(* A str is a sequence of Unicode code points: "keyA" is <<107,101,121,65>>.*)
(* A Python int is unbounded, so an int is carried as its decimal text     *)
(* (str(n), code points): 15 is <<49,53>>, -30 is <<45,51,48>>.            *)
(* A text that the program builds (an f-string, an exception's message) is *)
(* a sequence of parts, each a literal or a run of code points, so that    *)
(* "the message contains X" is a statement about the sequence.             *)
(* A JSON value is a record [kind, members] with members a set of          *)
(* <<key, parts>> pairs; a scalar has the single key "".  response.json()  *)
(* maps a body text to such a value; jsonify() sends the value, so a       *)
(* client response carries the JSON value, not the upstream bytes.         *)
(*                                                                         *)
(* Library behaviour is that of CPython 3.11 (Unicode 14), requests 2.32   *)
(* with urllib3 2 and Flask 3: JSONDecodeError is a RequestException,      *)
(* requests validates header values before sending, http.client validates  *)
(* them again when sending, redirects are followed, and a view may return  *)
(* a dict or a list.                                                       *)
(***************************************************************************)
EXTENDS Integers, Sequences, FiniteSets, TLC

VARIABLES
    environ,    \* os.environ["PEXELS_API_KEY"]: [given, value]
    phase,      \* "boot" | "listening" | "failed" (module import raised)
    apiKey,     \* module global PEXELS_API_KEY: [given, value]
    pc,         \* per request: "idle" | "awaiting" | "done"
    req,        \* per request: request.args
    outbound,   \* per request: the arguments of requests.get
    calls,      \* per request: HTTP requests sent to the upstream so far
    outcome,    \* per request: what the network/upstream answered last
    resp        \* per request: the response Flask sends to the client

vars == <<environ, phase, apiKey, pc, req, outbound, calls, outcome, resp>>

-----------------------------------------------------------------------------
(* Bounds of the model *)

\* number of inbound requests handled concurrently
MaxRequests == 2
\* longest per_page text enumerated
MaxLen == 3
\* redirects the upstream answers per request when requests run concurrently
MaxHops == 1

Requests == 1..MaxRequests

-----------------------------------------------------------------------------
(* Program constants *)

PEXELS_API_URL == "https://api.pexels.com/v1/search"
DefaultPerPage == 15
Timeout == 10
\* requests' Session.max_redirects, used by a plain requests.get
MaxRedirects == 30
\* CPython's sys.int_info.default_max_str_digits, applied by int()
IntMaxStrDigits == 4300

-----------------------------------------------------------------------------
(* Values: Python None / str as [given, value] *)

None == [given |-> FALSE, value |-> <<>>]
Str(v) == [given |-> TRUE, value |-> v]

\* Python truthiness of an Optional[str]: `not x`
Falsy(x) == ~x.given \/ x.value = <<>>

CharsOf(s) == {s[i] : i \in 1..Len(s)}

\* credentials the environment may hold: keyA, keyB, " keyA" (leading
\* space), "\tkeyB" (leading tab), "keyA\n" (trailing newline), "k(euro)y"
KeyA == <<107, 101, 121, 65>>
KeyB == <<107, 101, 121, 66>>
KeySpA == <<32>> \o KeyA
KeyTabB == <<9>> \o KeyB
KeyNlA == KeyA \o <<10>>
KeyNlB == KeyB \o <<10>>
KeyEuro == <<107, 8364, 121>>
Credentials == {KeyA, KeyB, KeySpA, KeyTabB, KeyNlA, KeyNlB, KeyEuro}

EnvValues ==
    {None, Str(<<>>), Str(KeyA), Str(KeySpA), Str(KeyTabB), Str(KeyNlA),
     Str(KeyEuro)}

-----------------------------------------------------------------------------
(* Characters *)

\* str.isspace() and the \s of re on str
UnicodeSpace ==
    (9..13) \cup (28..32) \cup {133, 160, 5760} \cup (8192..8202)
        \cup {8232, 8233, 8239, 8287, 12288}

\* what int() strips: Unicode whitespace is mapped to a space, and then the
\* C isspace() characters are stripped, which leaves out U+001C..U+001F
IntSpace == UnicodeSpace \ (28..31)

\* the code points of the digit zero of every Unicode decimal digit run (Nd)
DecimalZeros ==
    {
     48, 1632, 1776, 1984, 2406, 2534, 2662, 2790, 2918, 3046, 3174, 3302,
     3430, 3558, 3664, 3792, 3872, 4160, 4240, 6112, 6160, 6470, 6608,
     6784, 6800, 6992, 7088, 7232, 7248, 42528, 43216, 43264, 43472, 43504,
     43600, 44016, 65296, 66720, 68912, 69734, 69872, 69942, 70096, 70384,
     70736, 70864, 71248, 71360, 71472, 71904, 72016, 72784, 73040, 73120,
     92768, 92864, 93008, 120782, 120792, 120802, 120812, 120822, 123200,
     123632, 125264, 130032
    }

IsDecimal(c) == \E z \in DecimalZeros : z <= c /\ c <= z + 9

\* unicodedata.decimal(c)
DecimalValue(c) == c - (CHOOSE z \in DecimalZeros : z <= c /\ c <= z + 9)

\* the code points from 127 up for which str.isprintable() is false
NonPrintableRanges ==
    {
     <<127, 160>>, <<173, 173>>, <<888, 889>>, <<896, 899>>, <<907, 907>>,
     <<909, 909>>, <<930, 930>>, <<1328, 1328>>, <<1367, 1368>>,
     <<1419, 1420>>, <<1424, 1424>>, <<1480, 1487>>, <<1515, 1518>>,
     <<1525, 1541>>, <<1564, 1564>>, <<1757, 1757>>, <<1806, 1807>>,
     <<1867, 1868>>, <<1970, 1983>>, <<2043, 2044>>, <<2094, 2095>>,
     <<2111, 2111>>, <<2140, 2141>>, <<2143, 2143>>, <<2155, 2159>>,
     <<2191, 2199>>, <<2274, 2274>>, <<2436, 2436>>, <<2445, 2446>>,
     <<2449, 2450>>, <<2473, 2473>>, <<2481, 2481>>, <<2483, 2485>>,
     <<2490, 2491>>, <<2501, 2502>>, <<2505, 2506>>, <<2511, 2518>>,
     <<2520, 2523>>, <<2526, 2526>>, <<2532, 2533>>, <<2559, 2560>>,
     <<2564, 2564>>, <<2571, 2574>>, <<2577, 2578>>, <<2601, 2601>>,
     <<2609, 2609>>, <<2612, 2612>>, <<2615, 2615>>, <<2618, 2619>>,
     <<2621, 2621>>, <<2627, 2630>>, <<2633, 2634>>, <<2638, 2640>>,
     <<2642, 2648>>, <<2653, 2653>>, <<2655, 2661>>, <<2679, 2688>>,
     <<2692, 2692>>, <<2702, 2702>>, <<2706, 2706>>, <<2729, 2729>>,
     <<2737, 2737>>, <<2740, 2740>>, <<2746, 2747>>, <<2758, 2758>>,
     <<2762, 2762>>, <<2766, 2767>>, <<2769, 2783>>, <<2788, 2789>>,
     <<2802, 2808>>, <<2816, 2816>>, <<2820, 2820>>, <<2829, 2830>>,
     <<2833, 2834>>, <<2857, 2857>>, <<2865, 2865>>, <<2868, 2868>>,
     <<2874, 2875>>, <<2885, 2886>>, <<2889, 2890>>, <<2894, 2900>>,
     <<2904, 2907>>, <<2910, 2910>>, <<2916, 2917>>, <<2936, 2945>>,
     <<2948, 2948>>, <<2955, 2957>>, <<2961, 2961>>, <<2966, 2968>>,
     <<2971, 2971>>, <<2973, 2973>>, <<2976, 2978>>, <<2981, 2983>>,
     <<2987, 2989>>, <<3002, 3005>>, <<3011, 3013>>, <<3017, 3017>>,
     <<3022, 3023>>, <<3025, 3030>>, <<3032, 3045>>, <<3067, 3071>>,
     <<3085, 3085>>, <<3089, 3089>>, <<3113, 3113>>, <<3130, 3131>>,
     <<3141, 3141>>, <<3145, 3145>>, <<3150, 3156>>, <<3159, 3159>>,
     <<3163, 3164>>, <<3166, 3167>>, <<3172, 3173>>, <<3184, 3190>>,
     <<3213, 3213>>, <<3217, 3217>>, <<3241, 3241>>, <<3252, 3252>>,
     <<3258, 3259>>, <<3269, 3269>>, <<3273, 3273>>, <<3278, 3284>>,
     <<3287, 3292>>, <<3295, 3295>>, <<3300, 3301>>, <<3312, 3312>>,
     <<3315, 3327>>, <<3341, 3341>>, <<3345, 3345>>, <<3397, 3397>>,
     <<3401, 3401>>, <<3408, 3411>>, <<3428, 3429>>, <<3456, 3456>>,
     <<3460, 3460>>, <<3479, 3481>>, <<3506, 3506>>, <<3516, 3516>>,
     <<3518, 3519>>, <<3527, 3529>>, <<3531, 3534>>, <<3541, 3541>>,
     <<3543, 3543>>, <<3552, 3557>>, <<3568, 3569>>, <<3573, 3584>>,
     <<3643, 3646>>, <<3676, 3712>>, <<3715, 3715>>, <<3717, 3717>>,
     <<3723, 3723>>, <<3748, 3748>>, <<3750, 3750>>, <<3774, 3775>>,
     <<3781, 3781>>, <<3783, 3783>>, <<3790, 3791>>, <<3802, 3803>>,
     <<3808, 3839>>, <<3912, 3912>>, <<3949, 3952>>, <<3992, 3992>>,
     <<4029, 4029>>, <<4045, 4045>>, <<4059, 4095>>, <<4294, 4294>>,
     <<4296, 4300>>, <<4302, 4303>>, <<4681, 4681>>, <<4686, 4687>>,
     <<4695, 4695>>, <<4697, 4697>>, <<4702, 4703>>, <<4745, 4745>>,
     <<4750, 4751>>, <<4785, 4785>>, <<4790, 4791>>, <<4799, 4799>>,
     <<4801, 4801>>, <<4806, 4807>>, <<4823, 4823>>, <<4881, 4881>>,
     <<4886, 4887>>, <<4955, 4956>>, <<4989, 4991>>, <<5018, 5023>>,
     <<5110, 5111>>, <<5118, 5119>>, <<5760, 5760>>, <<5789, 5791>>,
     <<5881, 5887>>, <<5910, 5918>>, <<5943, 5951>>, <<5972, 5983>>,
     <<5997, 5997>>, <<6001, 6001>>, <<6004, 6015>>, <<6110, 6111>>,
     <<6122, 6127>>, <<6138, 6143>>, <<6158, 6158>>, <<6170, 6175>>,
     <<6265, 6271>>, <<6315, 6319>>, <<6390, 6399>>, <<6431, 6431>>,
     <<6444, 6447>>, <<6460, 6463>>, <<6465, 6467>>, <<6510, 6511>>,
     <<6517, 6527>>, <<6572, 6575>>, <<6602, 6607>>, <<6619, 6621>>,
     <<6684, 6685>>, <<6751, 6751>>, <<6781, 6782>>, <<6794, 6799>>,
     <<6810, 6815>>, <<6830, 6831>>, <<6863, 6911>>, <<6989, 6991>>,
     <<7039, 7039>>, <<7156, 7163>>, <<7224, 7226>>, <<7242, 7244>>,
     <<7305, 7311>>, <<7355, 7356>>, <<7368, 7375>>, <<7419, 7423>>,
     <<7958, 7959>>, <<7966, 7967>>, <<8006, 8007>>, <<8014, 8015>>,
     <<8024, 8024>>, <<8026, 8026>>, <<8028, 8028>>, <<8030, 8030>>,
     <<8062, 8063>>, <<8117, 8117>>, <<8133, 8133>>, <<8148, 8149>>,
     <<8156, 8156>>, <<8176, 8177>>, <<8181, 8181>>, <<8191, 8207>>,
     <<8232, 8239>>, <<8287, 8303>>, <<8306, 8307>>, <<8335, 8335>>,
     <<8349, 8351>>, <<8385, 8399>>, <<8433, 8447>>, <<8588, 8591>>,
     <<9255, 9279>>, <<9291, 9311>>, <<11124, 11125>>, <<11158, 11158>>,
     <<11508, 11512>>, <<11558, 11558>>, <<11560, 11564>>,
     <<11566, 11567>>, <<11624, 11630>>, <<11633, 11646>>,
     <<11671, 11679>>, <<11687, 11687>>, <<11695, 11695>>,
     <<11703, 11703>>, <<11711, 11711>>, <<11719, 11719>>,
     <<11727, 11727>>, <<11735, 11735>>, <<11743, 11743>>,
     <<11870, 11903>>, <<11930, 11930>>, <<12020, 12031>>,
     <<12246, 12271>>, <<12284, 12288>>, <<12352, 12352>>,
     <<12439, 12440>>, <<12544, 12548>>, <<12592, 12592>>,
     <<12687, 12687>>, <<12772, 12783>>, <<12831, 12831>>,
     <<42125, 42127>>, <<42183, 42191>>, <<42540, 42559>>,
     <<42744, 42751>>, <<42955, 42959>>, <<42962, 42962>>,
     <<42964, 42964>>, <<42970, 42993>>, <<43053, 43055>>,
     <<43066, 43071>>, <<43128, 43135>>, <<43206, 43213>>,
     <<43226, 43231>>, <<43348, 43358>>, <<43389, 43391>>,
     <<43470, 43470>>, <<43482, 43485>>, <<43519, 43519>>,
     <<43575, 43583>>, <<43598, 43599>>, <<43610, 43611>>,
     <<43715, 43738>>, <<43767, 43776>>, <<43783, 43784>>,
     <<43791, 43792>>, <<43799, 43807>>, <<43815, 43815>>,
     <<43823, 43823>>, <<43884, 43887>>, <<44014, 44015>>,
     <<44026, 44031>>, <<55204, 55215>>, <<55239, 55242>>,
     <<55292, 63743>>, <<64110, 64111>>, <<64218, 64255>>,
     <<64263, 64274>>, <<64280, 64284>>, <<64311, 64311>>,
     <<64317, 64317>>, <<64319, 64319>>, <<64322, 64322>>,
     <<64325, 64325>>, <<64451, 64466>>, <<64912, 64913>>,
     <<64968, 64974>>, <<64976, 65007>>, <<65050, 65055>>,
     <<65107, 65107>>, <<65127, 65127>>, <<65132, 65135>>,
     <<65141, 65141>>, <<65277, 65280>>, <<65471, 65473>>,
     <<65480, 65481>>, <<65488, 65489>>, <<65496, 65497>>,
     <<65501, 65503>>, <<65511, 65511>>, <<65519, 65531>>,
     <<65534, 65535>>, <<65548, 65548>>, <<65575, 65575>>,
     <<65595, 65595>>, <<65598, 65598>>, <<65614, 65615>>,
     <<65630, 65663>>, <<65787, 65791>>, <<65795, 65798>>,
     <<65844, 65846>>, <<65935, 65935>>, <<65949, 65951>>,
     <<65953, 65999>>, <<66046, 66175>>, <<66205, 66207>>,
     <<66257, 66271>>, <<66300, 66303>>, <<66340, 66348>>,
     <<66379, 66383>>, <<66427, 66431>>, <<66462, 66462>>,
     <<66500, 66503>>, <<66518, 66559>>, <<66718, 66719>>,
     <<66730, 66735>>, <<66772, 66775>>, <<66812, 66815>>,
     <<66856, 66863>>, <<66916, 66926>>, <<66939, 66939>>,
     <<66955, 66955>>, <<66963, 66963>>, <<66966, 66966>>,
     <<66978, 66978>>, <<66994, 66994>>, <<67002, 67002>>,
     <<67005, 67071>>, <<67383, 67391>>, <<67414, 67423>>,
     <<67432, 67455>>, <<67462, 67462>>, <<67505, 67505>>,
     <<67515, 67583>>, <<67590, 67591>>, <<67593, 67593>>,
     <<67638, 67638>>, <<67641, 67643>>, <<67645, 67646>>,
     <<67670, 67670>>, <<67743, 67750>>, <<67760, 67807>>,
     <<67827, 67827>>, <<67830, 67834>>, <<67868, 67870>>,
     <<67898, 67902>>, <<67904, 67967>>, <<68024, 68027>>,
     <<68048, 68049>>, <<68100, 68100>>, <<68103, 68107>>,
     <<68116, 68116>>, <<68120, 68120>>, <<68150, 68151>>,
     <<68155, 68158>>, <<68169, 68175>>, <<68185, 68191>>,
     <<68256, 68287>>, <<68327, 68330>>, <<68343, 68351>>,
     <<68406, 68408>>, <<68438, 68439>>, <<68467, 68471>>,
     <<68498, 68504>>, <<68509, 68520>>, <<68528, 68607>>,
     <<68681, 68735>>, <<68787, 68799>>, <<68851, 68857>>,
     <<68904, 68911>>, <<68922, 69215>>, <<69247, 69247>>,
     <<69290, 69290>>, <<69294, 69295>>, <<69298, 69375>>,
     <<69416, 69423>>, <<69466, 69487>>, <<69514, 69551>>,
     <<69580, 69599>>, <<69623, 69631>>, <<69710, 69713>>,
     <<69750, 69758>>, <<69821, 69821>>, <<69827, 69839>>,
     <<69865, 69871>>, <<69882, 69887>>, <<69941, 69941>>,
     <<69960, 69967>>, <<70007, 70015>>, <<70112, 70112>>,
     <<70133, 70143>>, <<70162, 70162>>, <<70207, 70271>>,
     <<70279, 70279>>, <<70281, 70281>>, <<70286, 70286>>,
     <<70302, 70302>>, <<70314, 70319>>, <<70379, 70383>>,
     <<70394, 70399>>, <<70404, 70404>>, <<70413, 70414>>,
     <<70417, 70418>>, <<70441, 70441>>, <<70449, 70449>>,
     <<70452, 70452>>, <<70458, 70458>>, <<70469, 70470>>,
     <<70473, 70474>>, <<70478, 70479>>, <<70481, 70486>>,
     <<70488, 70492>>, <<70500, 70501>>, <<70509, 70511>>,
     <<70517, 70655>>, <<70748, 70748>>, <<70754, 70783>>,
     <<70856, 70863>>, <<70874, 71039>>, <<71094, 71095>>,
     <<71134, 71167>>, <<71237, 71247>>, <<71258, 71263>>,
     <<71277, 71295>>, <<71354, 71359>>, <<71370, 71423>>,
     <<71451, 71452>>, <<71468, 71471>>, <<71495, 71679>>,
     <<71740, 71839>>, <<71923, 71934>>, <<71943, 71944>>,
     <<71946, 71947>>, <<71956, 71956>>, <<71959, 71959>>,
     <<71990, 71990>>, <<71993, 71994>>, <<72007, 72015>>,
     <<72026, 72095>>, <<72104, 72105>>, <<72152, 72153>>,
     <<72165, 72191>>, <<72264, 72271>>, <<72355, 72367>>,
     <<72441, 72703>>, <<72713, 72713>>, <<72759, 72759>>,
     <<72774, 72783>>, <<72813, 72815>>, <<72848, 72849>>,
     <<72872, 72872>>, <<72887, 72959>>, <<72967, 72967>>,
     <<72970, 72970>>, <<73015, 73017>>, <<73019, 73019>>,
     <<73022, 73022>>, <<73032, 73039>>, <<73050, 73055>>,
     <<73062, 73062>>, <<73065, 73065>>, <<73103, 73103>>,
     <<73106, 73106>>, <<73113, 73119>>, <<73130, 73439>>,
     <<73465, 73647>>, <<73649, 73663>>, <<73714, 73726>>,
     <<74650, 74751>>, <<74863, 74863>>, <<74869, 74879>>,
     <<75076, 77711>>, <<77811, 77823>>, <<78895, 82943>>,
     <<83527, 92159>>, <<92729, 92735>>, <<92767, 92767>>,
     <<92778, 92781>>, <<92863, 92863>>, <<92874, 92879>>,
     <<92910, 92911>>, <<92918, 92927>>, <<92998, 93007>>,
     <<93018, 93018>>, <<93026, 93026>>, <<93048, 93052>>,
     <<93072, 93759>>, <<93851, 93951>>, <<94027, 94030>>,
     <<94088, 94094>>, <<94112, 94175>>, <<94181, 94191>>,
     <<94194, 94207>>, <<100344, 100351>>, <<101590, 101631>>,
     <<101641, 110575>>, <<110580, 110580>>, <<110588, 110588>>,
     <<110591, 110591>>, <<110883, 110927>>, <<110931, 110947>>,
     <<110952, 110959>>, <<111356, 113663>>, <<113771, 113775>>,
     <<113789, 113791>>, <<113801, 113807>>, <<113818, 113819>>,
     <<113824, 118527>>, <<118574, 118575>>, <<118599, 118607>>,
     <<118724, 118783>>, <<119030, 119039>>, <<119079, 119080>>,
     <<119155, 119162>>, <<119275, 119295>>, <<119366, 119519>>,
     <<119540, 119551>>, <<119639, 119647>>, <<119673, 119807>>,
     <<119893, 119893>>, <<119965, 119965>>, <<119968, 119969>>,
     <<119971, 119972>>, <<119975, 119976>>, <<119981, 119981>>,
     <<119994, 119994>>, <<119996, 119996>>, <<120004, 120004>>,
     <<120070, 120070>>, <<120075, 120076>>, <<120085, 120085>>,
     <<120093, 120093>>, <<120122, 120122>>, <<120127, 120127>>,
     <<120133, 120133>>, <<120135, 120137>>, <<120145, 120145>>,
     <<120486, 120487>>, <<120780, 120781>>, <<121484, 121498>>,
     <<121504, 121504>>, <<121520, 122623>>, <<122655, 122879>>,
     <<122887, 122887>>, <<122905, 122906>>, <<122914, 122914>>,
     <<122917, 122917>>, <<122923, 123135>>, <<123181, 123183>>,
     <<123198, 123199>>, <<123210, 123213>>, <<123216, 123535>>,
     <<123567, 123583>>, <<123642, 123646>>, <<123648, 124895>>,
     <<124903, 124903>>, <<124908, 124908>>, <<124911, 124911>>,
     <<124927, 124927>>, <<125125, 125126>>, <<125143, 125183>>,
     <<125260, 125263>>, <<125274, 125277>>, <<125280, 126064>>,
     <<126133, 126208>>, <<126270, 126463>>, <<126468, 126468>>,
     <<126496, 126496>>, <<126499, 126499>>, <<126501, 126502>>,
     <<126504, 126504>>, <<126515, 126515>>, <<126520, 126520>>,
     <<126522, 126522>>, <<126524, 126529>>, <<126531, 126534>>,
     <<126536, 126536>>, <<126538, 126538>>, <<126540, 126540>>,
     <<126544, 126544>>, <<126547, 126547>>, <<126549, 126550>>,
     <<126552, 126552>>, <<126554, 126554>>, <<126556, 126556>>,
     <<126558, 126558>>, <<126560, 126560>>, <<126563, 126563>>,
     <<126565, 126566>>, <<126571, 126571>>, <<126579, 126579>>,
     <<126584, 126584>>, <<126589, 126589>>, <<126591, 126591>>,
     <<126602, 126602>>, <<126620, 126624>>, <<126628, 126628>>,
     <<126634, 126634>>, <<126652, 126703>>, <<126706, 126975>>,
     <<127020, 127023>>, <<127124, 127135>>, <<127151, 127152>>,
     <<127168, 127168>>, <<127184, 127184>>, <<127222, 127231>>,
     <<127406, 127461>>, <<127491, 127503>>, <<127548, 127551>>,
     <<127561, 127567>>, <<127570, 127583>>, <<127590, 127743>>,
     <<128728, 128732>>, <<128749, 128751>>, <<128765, 128767>>,
     <<128884, 128895>>, <<128985, 128991>>, <<129004, 129007>>,
     <<129009, 129023>>, <<129036, 129039>>, <<129096, 129103>>,
     <<129114, 129119>>, <<129160, 129167>>, <<129198, 129199>>,
     <<129202, 129279>>, <<129620, 129631>>, <<129646, 129647>>,
     <<129653, 129655>>, <<129661, 129663>>, <<129671, 129679>>,
     <<129709, 129711>>, <<129723, 129727>>, <<129734, 129743>>,
     <<129754, 129759>>, <<129768, 129775>>, <<129783, 129791>>,
     <<129939, 129939>>, <<129995, 130031>>, <<130042, 131071>>,
     <<173792, 173823>>, <<177977, 177983>>, <<178206, 178207>>,
     <<183970, 183983>>, <<191457, 194559>>, <<195102, 196607>>,
     <<201547, 917759>>, <<918000, 1114111>>
    }

IsPrintable(c) ==
    /\ c >= 32
    /\ ~\E g \in NonPrintableRanges : g[1] <= c /\ c <= g[2]

RECURSIVE Hex(_, _)
\* n in `width` lower-case hexadecimal digits
Hex(n, width) ==
    IF width = 0 THEN <<>>
    ELSE LET d == n % 16
         IN  Hex(n \div 16, width - 1) \o <<IF d < 10 THEN 48 + d ELSE 87 + d>>

\* one character of repr(str) inside the quote q
ReprChar(c, q) ==
    IF c = q \/ c = 92 THEN <<92, c>>
    ELSE IF c = 9 THEN <<92, 116>>
    ELSE IF c = 10 THEN <<92, 110>>
    ELSE IF c = 13 THEN <<92, 114>>
    ELSE IF IsPrintable(c) THEN <<c>>
    ELSE IF c < 256 THEN <<92, 120>> \o Hex(c, 2)
    ELSE IF c < 65536 THEN <<92, 117>> \o Hex(c, 4)
    ELSE <<92, 85>> \o Hex(c, 8)

RECURSIVE ReprBody(_, _)
ReprBody(s, q) ==
    IF s = <<>> THEN <<>> ELSE ReprChar(Head(s), q) \o ReprBody(Tail(s), q)

\* repr(s) of a str: double quotes only when s has a ' and no "
PyRepr(s) ==
    LET q == IF 39 \in CharsOf(s) /\ 34 \notin CharsOf(s) THEN 34 ELSE 39
    IN  <<q>> \o ReprBody(s, q) \o <<q>>

-----------------------------------------------------------------------------
(* int(): werkzeug's MultiDict.get(key, default, type=int) *)

\* str.strip() as int() applies it
Strip(s) ==
    LET kept == {i \in 1..Len(s) : s[i] \notin IntSpace}
    IN  IF kept = {} THEN <<>>
        ELSE SubSeq(s,
                    CHOOSE i \in kept : \A j \in 1..(i - 1) : s[j] \in IntSpace,
                    CHOOSE i \in kept : \A j \in (i + 1)..Len(s) : s[j] \in IntSpace)

\* digits, with single underscores allowed between two digits
IsDigits(s) ==
    /\ Len(s) > 0
    /\ \A i \in 1..Len(s) :
          \/ IsDecimal(s[i])
          \/ /\ s[i] = 95
             /\ 1 < i /\ i < Len(s)
             /\ IsDecimal(s[i - 1]) /\ IsDecimal(s[i + 1])

\* leading zeros dropped, the last digit kept
DropZeros(s) ==
    LET first == CHOOSE i \in 1..Len(s) :
                     /\ s[i] # 48 \/ i = Len(s)
                     /\ \A j \in 1..(i - 1) : s[j] = 48
    IN  SubSeq(s, first, Len(s))

\* the decimal text of a natural number given by its digit characters
NatText(digits) ==
    DropZeros([i \in 1..Len(digits) |-> 48 + DecimalValue(digits[i])])

\* int(text): surrounding whitespace stripped, an optional sign, then digits;
\* more than 4300 digits is a ValueError too. ok = FALSE is ValueError,
\* value is str() of the int.
PyInt(text) ==
    LET t == Strip(text)
        signed == t # <<>> /\ Head(t) \in {43, 45}
        body == IF signed THEN Tail(t) ELSE t
        digits == SelectSeq(body, IsDecimal)
        ok == IsDigits(body) /\ Len(digits) <= IntMaxStrDigits
        mag == IF ok THEN NatText(digits) ELSE <<48>>
    IN  [ok |-> ok,
         value |-> IF signed /\ Head(t) = 45 /\ mag # <<48>>
                   THEN <<45>> \o mag ELSE mag]

RECURSIVE IntText(_)
\* str(n) of a small natural number
IntText(n) ==
    IF n < 10 THEN <<48 + n>> ELSE IntText(n \div 10) \o <<48 + (n % 10)>>

\* request.args.get('query')
Query(args) == args.query

\* variant: `if query is None:`, which lets the empty string through
QueryMissingNoneOnly(args) == ~Query(args).given

\* `if not query:` (line 53)
QueryMissing(args) == Falsy(Query(args))

\* variant: negative values replaced by the default
PerPageNonNegative(args) ==
    LET p == PyInt(args.per_page.value)
    IN  IF ~args.per_page.given \/ ~p.ok \/ Head(p.value) = 45
        THEN IntText(DefaultPerPage)
        ELSE p.value

\* request.args.get('per_page', 15, type=int): the default when the key is
\* absent or int() raises ValueError, else the converted value
PerPage(args) ==
    LET p == PyInt(args.per_page.value)
    IN  IF ~args.per_page.given THEN IntText(DefaultPerPage)
        ELSE IF p.ok THEN p.value ELSE IntText(DefaultPerPage)

-----------------------------------------------------------------------------
(* Header values *)

\* requests' check of a str header value: re.match(r"^\S[^\r\n]*$|^$", v);
\* $ also matches before one final newline
HeaderValueValid(v) ==
    LET w == IF v # <<>> /\ v[Len(v)] = 10 THEN SubSeq(v, 1, Len(v) - 1) ELSE v
    IN  \/ w = <<>>
        \/ /\ Head(v) \notin UnicodeSpace
           /\ \A i \in 2..Len(w) : w[i] \notin {10, 13}

\* str() of the InvalidHeader that requests raises: it holds repr(value).
\* The wording is that of requests 2.32; 2.28 to 2.31 print
\* "returncharacter(s)" in its place.
InvalidHeaderMessage(v) ==
    <<[lit |-> "Invalid leading whitespace, reserved character(s), or return character(s) in header value: ",
       chars |-> <<>>],
      [lit |-> "", chars |-> PyRepr(v)]>>

\* http.client's putheader: the value is encoded as latin-1, then searched
\* for \n(?![ \t])|\r(?![ \t\n]). "" when accepted, else the exception.
PutHeaderError(v) ==
    IF \E i \in 1..Len(v) : v[i] > 255 THEN "UnicodeEncodeError"
    ELSE IF \E i \in 1..Len(v) :
               \/ v[i] = 10 /\ ~(i < Len(v) /\ v[i + 1] \in {32, 9})
               \/ v[i] = 13 /\ ~(i < Len(v) /\ v[i + 1] \in {32, 9, 10})
         THEN "ValueError"
    ELSE ""

-----------------------------------------------------------------------------
(* Inbound requests *)

\* query absent, empty, "cats"
QueryTexts == {None, Str(<<>>), Str(<<99, 97, 116, 115>>)}

\* - 0 3 space x _ U+0663 (ARABIC-INDIC DIGIT THREE) form-feed U+001C
PerPageChars == {45, 48, 51, 32, 120, 95, 1635, 12, 28}
TextsUpTo(n) == UNION {[1..k -> PerPageChars] : k \in 0..n}

\* every per_page text up to MaxLen, and the key left out
AllPerPage == {None} \cup {Str(t) : t \in TextsUpTo(MaxLen)}
\* n times the digit 3
Threes(n) == [i \in 1..n |-> 51]

\* per_page texts longer than MaxLen: 23 digits, and the two lengths at int()'s
\* limit on the number of digits
LongPerPage ==
    {Str(Threes(23)), Str(Threes(IntMaxStrDigits)), Str(Threes(IntMaxStrDigits + 1))}

\* the per_page the concurrent specification draws: "20"
FewPerPage == {Str(<<50, 48>>)}

ArgsOf(Q, P) == [query : Q, per_page : P]

NoArgs == [query |-> None, per_page |-> None]

-----------------------------------------------------------------------------
(* The upstream API and the network *)

BodyPhotos == "{\"photos\":[]}"
BodyPhotosSpaced == "{ \"photos\" : [ ] }"
BodyRateLimited == "{\"error\":\"rate limited\"}"
BodyNumber == "42"
BodyString == "\"hi\""
BodyOops == "oops"
BodyTexts ==
    {BodyPhotos, BodyPhotosSpaced, BodyRateLimited, BodyNumber, BodyString, BodyOops}

\* statuses of the answers that end requests.get
UpstreamStatuses == {200, 201, 429, 500}

Lit(s) == [lit |-> s, chars |-> <<>>]
Chars(cs) == [lit |-> "", chars |-> cs]

NoOutcome ==
    [kind |-> "none", status |-> 0, body |-> "", location |-> FALSE,
     exc |-> "", desc |-> <<>>]

\* the connection was made and nothing was sent on it
Connected == [NoOutcome EXCEPT !.kind = "connected"]

Response(status, body) ==
    [kind |-> "response", status |-> status, body |-> body, location |-> FALSE,
     exc |-> "", desc |-> <<>>]

\* an answer with a Location header
Redirect(status) ==
    [kind |-> "response", status |-> status, body |-> "", location |-> TRUE,
     exc |-> "", desc |-> <<>>]

Failure(exc, desc) ==
    [kind |-> "failure", status |-> 0, body |-> "", location |-> FALSE,
     exc |-> exc, desc |-> <<Lit(desc)>>]

UpstreamResponses == {Response(s, b) : s \in UpstreamStatuses, b \in BodyTexts}

Redirects == {Redirect(301), Redirect(302)}

\* Response.is_redirect: a Location header and a redirect status
IsRedirect(o) ==
    o.kind = "response" /\ o.location /\ o.status \in {301, 302, 303, 307, 308}

\* exceptions of requests.get that are RequestException subclasses, with str(e)
NetworkFailures ==
    {Failure("ConnectionError", "Failed to resolve 'api.pexels.com'"),
     Failure("ConnectionError", "Connection refused"),
     Failure("ReadTimeout", "Read timed out. (read timeout=10)"),
     Failure("SSLError", "certificate verify failed")}

-----------------------------------------------------------------------------
(* JSON *)

Dict(members) == [kind |-> "dict", members |-> members]
Scalar(kind, text) == [kind |-> kind, members |-> {<<"", <<Lit(text)>>>>}]

\* response.json(): json.loads of the body text. ok = FALSE is
\* requests.exceptions.JSONDecodeError, message its str().
JsonLoads(text) ==
    CASE text \in {BodyPhotos, BodyPhotosSpaced} ->
            [ok |-> TRUE, value |-> Dict({<<"photos", <<Lit("[]")>>>>}),
             message |-> <<>>]
      [] text = BodyRateLimited ->
            [ok |-> TRUE, value |-> Dict({<<"error", <<Lit("rate limited")>>>>}),
             message |-> <<>>]
      [] text = BodyNumber ->
            [ok |-> TRUE, value |-> Scalar("int", "42"), message |-> <<>>]
      [] text = BodyString ->
            [ok |-> TRUE, value |-> Scalar("str", "hi"), message |-> <<>>]
      [] OTHER ->
            [ok |-> FALSE, value |-> Scalar("none", ""),
             message |-> <<Lit("Expecting value: line 1 column 1 (char 0)")>>]

-----------------------------------------------------------------------------
(* Responses to the client *)

NoResponse ==
    [status |-> 0, mimetype |-> "", body |-> Scalar("none", ""), raised |-> ""]

\* jsonify(value), status
Jsonify(value, status) ==
    [status |-> status, mimetype |-> "application/json", body |-> value,
     raised |-> ""]

ErrorObject(message) == Dict({<<"error", message>>})

\* an exception that leaves the view: Flask answers 500 with an HTML page
\* (the debugger's page under app.run(debug=True), the generic one otherwise)
UncaughtResponse(exc) ==
    [status |-> 500, mimetype |-> "text/html",
     body |-> Scalar("str", "Internal Server Error"), raised |-> exc]

\* Flask.make_response of a bare view return value: a dict or list is
\* jsonified, a str is an HTML body, anything else is a TypeError.
\* The status is Flask's default 200.
MakeResponse(rv) ==
    CASE rv.kind \in {"dict", "list"} -> Jsonify(rv, 200)
      [] rv.kind = "str" ->
            [status |-> 200, mimetype |-> "text/html", body |-> rv, raised |-> ""]
      [] OTHER -> UncaughtResponse("TypeError")

\* line 54
ValidationResponse ==
    Jsonify(ErrorObject(<<Lit("The 'query' parameter is required.")>>), 400)

ConnectPrefix == "Could not connect to Pexels API: "

\* variant: the message without the exception's text
TransportErrorResponseNoDetail(desc) ==
    Jsonify(ErrorObject(<<Lit(ConnectPrefix)>>), 503)

\* lines 88-91: f"Could not connect to Pexels API: {req_err}", 503
TransportErrorResponse(desc) ==
    Jsonify(ErrorObject(<<Lit(ConnectPrefix)>> \o desc), 503)

NonJsonError == "Received a non-JSON error response from Pexels API."

\* variant: the substitute body whatever the upstream sent
UpstreamErrorResponseAlwaysSubstitute(o) ==
    Jsonify(Dict({<<"error", <<Lit(NonJsonError)>>>>,
                  <<"details", <<Lit(o.body)>>>>}),
            o.status)

\* lines 78-86: the upstream's JSON, or the substitute, with its status
UpstreamErrorResponse(o) ==
    LET p == JsonLoads(o.body)
        error_details ==
            IF p.ok THEN p.value
            ELSE Dict({<<"error", <<Lit(NonJsonError)>>>>,
                       <<"details", <<Lit(o.body)>>>>})
    IN  Jsonify(error_details, o.status)

\* line 73: Response.raise_for_status raises HTTPError for 400..599
RaisesForStatus(status) == 400 <= status /\ status < 600

\* lines 73-76 when raise_for_status does not raise: `return response.json()`;
\* a JSONDecodeError is a RequestException and lands in lines 88-91
SuccessResponse(o) ==
    LET p == JsonLoads(o.body)
    IN  IF p.ok THEN MakeResponse(p.value) ELSE TransportErrorResponse(p.message)

\* str() of the TooManyRedirects that requests raises
TooManyRedirectsMessage ==
    <<Lit("Exceeded "), Chars(IntText(MaxRedirects)), Lit(" redirects.")>>

NoOutbound ==
    [url |-> "", authorization |-> <<>>, query |-> <<>>, per_page |-> <<>>,
     timeout |-> 0]

\* lines 59-70: the arguments of requests.get
OutboundRequest(key, args) ==
    [url |-> PEXELS_API_URL, authorization |-> key, query |-> Query(args).value,
     per_page |-> PerPage(args), timeout |-> Timeout]

\* the whole view function (lines 52-91) as a function of the credential, the
\* inbound arguments and the last thing the network answered
ViewResult(key, args, o) ==
    IF QueryMissing(args) THEN ValidationResponse
    ELSE IF ~HeaderValueValid(key)
         THEN TransportErrorResponse(InvalidHeaderMessage(key))
    ELSE IF o.kind = "failure" THEN TransportErrorResponse(o.desc)
    ELSE IF PutHeaderError(key) # "" THEN UncaughtResponse(PutHeaderError(key))
    ELSE IF IsRedirect(o) THEN TransportErrorResponse(TooManyRedirectsMessage)
    ELSE IF RaisesForStatus(o.status) THEN UpstreamErrorResponse(o)
    ELSE SuccessResponse(o)

-----------------------------------------------------------------------------
(* Start-up: lines 15-21 *)

\* variant: `if PEXELS_API_KEY is None`, which accepts the empty string
PreflightOkNoneOnly(key) == key.given

\* `if not PEXELS_API_KEY: raise ValueError`
PreflightOk(key) == ~Falsy(key)

Init ==
    /\ environ \in EnvValues
    /\ phase = "boot"
    /\ apiKey = None
    /\ pc = [r \in Requests |-> "idle"]
    /\ req = [r \in Requests |-> NoArgs]
    /\ outbound = [r \in Requests |-> NoOutbound]
    /\ calls = [r \in Requests |-> 0]
    /\ outcome = [r \in Requests |-> NoOutcome]
    /\ resp = [r \in Requests |-> NoResponse]

Startup ==
    /\ phase = "boot"
    /\ apiKey' = environ
    /\ phase' = IF PreflightOk(environ) THEN "listening" ELSE "failed"
    /\ UNCHANGED <<environ, pc, req, outbound, calls, outcome, resp>>

-----------------------------------------------------------------------------
(* search_pexels_images: lines 35-91, split where it blocks on the network *)

Finish(r, o) ==
    /\ outcome' = [outcome EXCEPT ![r] = o]
    /\ resp' = [resp EXCEPT ![r] = ViewResult(apiKey.value, req[r], o)]
    /\ pc' = [pc EXCEPT ![r] = "done"]

\* lines 52-70: up to the first outbound request. requests.get prepares the
\* request (and validates the headers) before anything is sent.
Begin(r, a) ==
    /\ phase = "listening"
    /\ pc[r] = "idle"
    /\ req' = [req EXCEPT ![r] = a]
    /\ IF QueryMissing(a)
       THEN /\ resp' = [resp EXCEPT ![r] = ViewResult(apiKey.value, a, NoOutcome)]
            /\ pc' = [pc EXCEPT ![r] = "done"]
            /\ UNCHANGED <<outbound, calls>>
       ELSE /\ outbound' = [outbound EXCEPT ![r] = OutboundRequest(apiKey.value, a)]
            /\ IF HeaderValueValid(apiKey.value)
               THEN /\ calls' = [calls EXCEPT ![r] = @ + 1]
                    /\ pc' = [pc EXCEPT ![r] = "awaiting"]
                    /\ UNCHANGED resp
               ELSE /\ resp' = [resp EXCEPT ![r] =
                                   ViewResult(apiKey.value, a, NoOutcome)]
                    /\ pc' = [pc EXCEPT ![r] = "done"]
                    /\ UNCHANGED calls
    /\ UNCHANGED <<environ, phase, apiKey, outcome>>

\* lines 70, 88-91: the exchange did not complete
NetworkFails(r, f) ==
    /\ pc[r] = "awaiting"
    /\ Finish(r, f)
    /\ UNCHANGED <<environ, phase, apiKey, req, outbound, calls>>

\* line 70: the connection is made, http.client refuses the Authorization
\* value and its exception leaves the view
PutHeaderRaises(r) ==
    /\ pc[r] = "awaiting"
    /\ PutHeaderError(apiKey.value) # ""
    /\ Finish(r, Connected)
    /\ UNCHANGED <<environ, phase, apiKey, req, outbound, calls>>

\* line 70: the upstream answered with a redirect; requests follows it with
\* another request, or raises TooManyRedirects after MaxRedirects of them
Redirected(r, o) ==
    /\ pc[r] = "awaiting"
    /\ PutHeaderError(apiKey.value) = ""
    /\ IsRedirect(o)
    /\ IF calls[r] - 1 >= MaxRedirects
       THEN /\ Finish(r, o)
            /\ UNCHANGED calls
       ELSE /\ calls' = [calls EXCEPT ![r] = @ + 1]
            /\ UNCHANGED <<outcome, resp, pc>>
    /\ UNCHANGED <<environ, phase, apiKey, req, outbound>>

\* a redirect of an upstream that redirects a request at most MaxHops times
RedirectedWithinHops(r, o) == calls[r] <= MaxHops /\ Redirected(r, o)

\* lines 70-86: the upstream gave its final answer
UpstreamResponds(r, o) ==
    /\ pc[r] = "awaiting"
    /\ PutHeaderError(apiKey.value) = ""
    /\ ~IsRedirect(o)
    /\ Finish(r, o)
    /\ UNCHANGED <<environ, phase, apiKey, req, outbound, calls>>

Next ==
    \/ Startup
    \/ \E r \in Requests, a \in ArgsOf(QueryTexts, FewPerPage) : Begin(r, a)
    \/ \E r \in Requests, f \in NetworkFailures : NetworkFails(r, f)
    \/ \E r \in Requests : PutHeaderRaises(r)
    \/ \E r \in Requests, o \in Redirects : RedirectedWithinHops(r, o)
    \/ \E r \in Requests, o \in UpstreamResponses : UpstreamResponds(r, o)

\* concurrent requests; the upstream redirects each at most MaxHops times
Spec == Init /\ [][Next]_vars

ArgsNext ==
    \/ Startup
    \/ \E a \in ArgsOf({Str(<<99, 97, 116, 115>>)}, AllPerPage \cup LongPerPage) : Begin(1, a)
    \/ UpstreamResponds(1, Response(200, BodyPhotos))

ArgsInit == Init /\ environ = Str(KeyA)

\* one credential, one request, every per_page text, an upstream that answers 200
ArgsSpec == ArgsInit /\ [][ArgsNext]_vars

RedirectNext ==
    \/ Startup
    \/ Begin(1, [query |-> Str(<<99, 97, 116, 115>>), per_page |-> None])
    \/ \E f \in NetworkFailures : NetworkFails(1, f)
    \/ PutHeaderRaises(1)
    \/ \E o \in Redirects : Redirected(1, o)
    \/ \E o \in UpstreamResponses : UpstreamResponds(1, o)

\* one request, an upstream that may redirect without end
RedirectSpec == Init /\ [][RedirectNext]_vars

-----------------------------------------------------------------------------
(* Claims *)

HasQuery(r) == req[r].query.given /\ req[r].query.value # <<>>

Is2xx(status) == 200 <= status /\ status < 300
Is4xx5xx(status) == 400 <= status /\ status < 600

Text(s) == <<[lit |-> s, chars |-> <<>>]>>

JsonResponse(status, members) ==
    [status |-> status, mimetype |-> "application/json",
     body |-> [kind |-> "dict", members |-> members], raised |-> ""]

\* C1: a request whose query is missing or empty is answered 400 with the
\* fixed error body, and no outbound call is made for it.
C1_MissingQueryRejected ==
    \A r \in Requests :
        (pc[r] # "idle" /\ ~HasQuery(r)) =>
            /\ pc[r] = "done"
            /\ resp[r] = JsonResponse(400,
                   {<<"error", Text("The 'query' parameter is required.")>>})
            /\ calls[r] = 0
            /\ outbound[r] = NoOutbound
            /\ outcome[r] = NoOutcome

C1_Witness ==
    \E r1, r2 \in Requests :
        /\ pc[r1] = "done" /\ ~req[r1].query.given /\ resp[r1].status = 400
        /\ pc[r2] = "done" /\ req[r2].query = Str(<<>>) /\ resp[r2].status = 400

\* C2 (as claimed): an upstream 2xx response with a JSON body is answered
\* with that JSON value and the upstream's status code.
C2_SuccessForwardedWithStatus ==
    \A r \in Requests :
        (/\ pc[r] = "done"
         /\ outcome[r].kind = "response"
         /\ Is2xx(outcome[r].status)
         /\ JsonLoads(outcome[r].body).ok) =>
            /\ resp[r].status = outcome[r].status
            /\ resp[r].mimetype = "application/json"
            /\ resp[r].body = JsonLoads(outcome[r].body).value

\* C3: an upstream 4xx/5xx response is answered with the upstream status and
\* the upstream's JSON value, or the substitute object when the body is not
\* JSON.
C3_UpstreamErrorForwarded ==
    \A r \in Requests :
        (/\ pc[r] = "done"
         /\ outcome[r].kind = "response"
         /\ Is4xx5xx(outcome[r].status)) =>
            /\ resp[r].status = outcome[r].status
            /\ resp[r].mimetype = "application/json"
            /\ resp[r].raised = ""
            /\ IF JsonLoads(outcome[r].body).ok
               THEN resp[r].body = JsonLoads(outcome[r].body).value
               ELSE resp[r].body =
                      [kind |-> "dict",
                       members |->
                         {<<"error",
                            Text("Received a non-JSON error response from Pexels API.")>>,
                          <<"details", Text(outcome[r].body)>>}]
            /\ (outcome[r] = Response(429, BodyRateLimited) =>
                   resp[r] = JsonResponse(429, {<<"error", Text("rate limited")>>}))

C3_Witness ==
    \E r1, r2 \in Requests :
        /\ pc[r1] = "done" /\ outcome[r1] = Response(429, BodyRateLimited)
        /\ resp[r1].status = 429
        /\ pc[r2] = "done" /\ outcome[r2] = Response(500, BodyOops)
        /\ resp[r2].status = 500

\* C4: a request with a query whose outbound exchange fails to complete is
\* answered 503 with the error "Could not connect to Pexels API: " followed by
\* the failure's description.
C4_NetworkFailureIs503 ==
    \A r \in Requests :
        (pc[r] = "done" /\ outcome[r].kind = "failure") =>
            /\ HasQuery(r)
            /\ resp[r] = JsonResponse(503,
                   {<<"error",
                      Text("Could not connect to Pexels API: ") \o outcome[r].desc>>})
            /\ outcome[r].desc # <<>>

C4_Witness ==
    \E r1, r2 \in Requests :
        /\ pc[r1] = "done" /\ outcome[r1].exc = "ReadTimeout"
        /\ resp[r1].status = 503
        /\ pc[r2] = "done" /\ outcome[r2].exc = "ConnectionError"
        /\ resp[r2].status = 503

\* C5 (as claimed): every handled request ends in a JSON response and no
\* exception escapes.
C5_AlwaysJsonResponse ==
    \A r \in Requests :
        pc[r] = "done" =>
            /\ resp[r].mimetype = "application/json"
            /\ resp[r].raised = ""

-----------------------------------------------------------------------------
(* Integer texts, stated without the parser: how an integer is written *)

\* <<character, digit>> for the digit characters of PerPageChars
DigitChars == {<<48, 0>>, <<51, 3>>, <<1635, 3>>}

\* the characters of PerPageChars that may surround an integer: space, \f
PadChars == {32, 12}

\* <<text, n>>: digits and single underscores between digits, of exactly k
\* characters, with the natural they write
RECURSIVE DigitRuns(_)
DigitRuns(k) ==
    IF k <= 0 THEN {}
    ELSE IF k = 1 THEN {<<<<d[1]>>, d[2]>> : d \in DigitChars}
    ELSE {<<b[1] \o <<d[1]>>, 10 * b[2] + d[2]>> :
              b \in DigitRuns(k - 1), d \in DigitChars}
         \cup {<<b[1] \o <<95, d[1]>>, 10 * b[2] + d[2]>> :
                  b \in DigitRuns(k - 2), d \in DigitChars}

Pads(n) == UNION {[1..k -> PadChars] : k \in 0..n}

\* <<text, negative, n>>: every way to write an integer in at most MaxLen of
\* the characters PerPageChars: padding, an optional sign, digits, padding
IntegerWritings ==
    {<<pp[1] \o sg \o b[1] \o pp[2], sg = <<45>>, b[2]>> :
        pp \in {q \in Pads(MaxLen) \X Pads(MaxLen) : Len(q[1]) + Len(q[2]) < MaxLen},
        sg \in {<<>>, <<45>>},
        b \in UNION {DigitRuns(k) : k \in 1..MaxLen}}

\* the decimal text of the integer a text writes, if it writes one
Writes(t) ==
    {IF w[2] /\ w[3] # 0 THEN <<45>> \o IntText(w[3]) ELSE IntText(w[3]) :
        w \in {x \in IntegerWritings : x[1] = t}}

\* a per_page text of at most MaxLen of the characters PerPageChars
IsShortText(p) ==
    /\ p.given
    /\ Len(p.value) <= MaxLen
    /\ \A i \in 1..Len(p.value) : p.value[i] \in PerPageChars

\* per_page as sent when the inbound per_page is absent or a short text
PerPageForShortTexts ==
    \A r \in Requests :
        calls[r] > 0 =>
            LET p == req[r].per_page
                v == outbound[r].per_page
            IN  /\ ~p.given => v = <<49, 53>>
                /\ (IsShortText(p) /\ Writes(p.value) = {}) => v = <<49, 53>>
                /\ (IsShortText(p) /\ Writes(p.value) # {}) => Writes(p.value) = {v}

\* C6 (as claimed): the per_page sent upstream is 15 when the inbound
\* per_page is absent or writes no integer, and otherwise the integer the text
\* writes, however large.
C6_PerPagePassedThrough ==
    /\ PerPageForShortTexts
    /\ \A r \in Requests :
           (calls[r] > 0 /\ req[r].per_page \in LongPerPage) =>
               outbound[r].per_page = req[r].per_page.value

\* C6 (amended): the per_page sent upstream is 15 when the inbound per_page
\* is absent, writes no integer or writes one with more than 4300 digits, and
\* otherwise the integer the text writes, with no bound applied.
C6_PerPagePassedThroughUpToDigitLimit ==
    /\ PerPageForShortTexts
    /\ \A r \in Requests :
           (calls[r] > 0 /\ req[r].per_page \in LongPerPage) =>
               outbound[r].per_page =
                   IF Len(req[r].per_page.value) <= 4300
                   THEN req[r].per_page.value
                   ELSE <<49, 53>>

C6_Witness ==
    /\ pc[1] = "done"
    /\ calls[1] > 0
    /\ Len(req[1].per_page.value) = 4301
    /\ outbound[1].per_page = <<49, 53>>

\* C7: start-up fails when the credential is absent or empty, and whenever a
\* request is being handled the stored credential is non-empty and is the
\* value of the environment at start.
C7_FailFastCredential ==
    /\ (phase # "boot" /\ (~environ.given \/ environ.value = <<>>)) =>
           phase = "failed"
    /\ phase # "listening" => \A r \in Requests : pc[r] = "idle"
    /\ \A r \in Requests :
           pc[r] # "idle" =>
               /\ apiKey.given /\ apiKey.value # <<>>
               /\ apiKey = environ
               /\ (outbound[r] # NoOutbound =>
                       outbound[r].authorization = environ.value)

C7_Witness ==
    phase = "failed" /\ environ = Str(<<>>) /\ \A r \in Requests : pc[r] = "idle"

\* C8 (as claimed): each inbound request makes at most one outbound call,
\* exactly one once a request with a query is past validation, whatever the
\* other requests are doing. A call that requests refuses to prepare, for a
\* credential that is no header value, is not asked for.
C8_AtMostOneOutboundCall ==
    \A r \in Requests :
        /\ calls[r] <= 1
        /\ (pc[r] # "idle" /\ HasQuery(r) /\ HeaderValueValid(apiKey.value)) =>
               calls[r] = 1
        /\ (pc[r] # "idle" /\ ~HasQuery(r)) => calls[r] = 0
        /\ pc[r] = "idle" => calls[r] = 0

\* C9 (as claimed): the response does not depend on the credential: with the
\* same inbound request and the same upstream outcome, any other non-empty
\* credential that gets as far gives the same response.
C9_ResponseIndependentOfCredential ==
    \A r \in Requests :
        pc[r] = "done" =>
            \A k \in Credentials :
                (/\ HeaderValueValid(k) = HeaderValueValid(apiKey.value)
                 /\ PutHeaderError(k) = PutHeaderError(apiKey.value)) =>
                    ViewResult(k, req[r], outcome[r]) = resp[r]

\* the handler's own transport-error response
IsTransportError(rsp) ==
    /\ rsp.status = 503
    /\ \E m \in rsp.body.members :
           /\ m[1] = "error"
           /\ m[2] # <<>>
           /\ m[2][1].lit = "Could not connect to Pexels API: "

\* C10 (as claimed): when the upstream delivered a response, the client never
\* gets the handler's 503 transport-error response.
C10_No503WhenUpstreamAnswered ==
    \A r \in Requests :
        (pc[r] = "done" /\ outcome[r].kind = "response") =>
            ~IsTransportError(resp[r])

====
